---- MODULE Spec2Model ----
(***************************************************************************)
(* One run of the Streamlit page script src/app.py: the title, load_data(), *)
(* the sidebar widgets, the four filters, the KPI strip, the table, the    *)
(* top-level except and the footer.  A run is a straight line through the  *)
(* script; the values the user has put into the widgets are inputs of the  *)
(* run and are drawn where the widget call returns them.                   *)
(***************************************************************************)
EXTENDS Integers, Sequences, FiniteSets

VARIABLES
    pc,             \* position of the script
    db,             \* table market_prices, in id order (ascending)
    minSkipsNull,   \* how Series.min()/max() of this pandas build treats NaT in an object column
    conn,           \* the sqlite3 connection of load_data: "none", "open", "closed"
    queries,        \* number of read_sql_query calls of this run
    df,             \* the loaded frame
    keyword, author_keyword, date_range, price_range,
    filtered_df,
    kpi,            \* <<total, filtered, average>> once the metrics are rendered, <<>> before
    ui,             \* the elements emitted to the page so far, in order
    err,            \* the exception caught by the top-level except, or NoErr
    err_line        \* the line of app.py that raised it, 0 when none

vars == <<pc, db, minSkipsNull, conn, queries, df, keyword, author_keyword,
          date_range, price_range, filtered_df, kpi, ui, err, err_line>>

-----------------------------------------------------------------------------
(* Bounds and sample data *)

MaxRows == 3

PriceCap == 100000
SliderStep == 100

\* the null entry of the post_date_dt column (no calendar date has this value)
NaT == -1
NoErr == "none"

\* post_date strings, kept as their fields: "2024/01/01" is D("/", 2024, 1, 1)
D(sep, y, m, d) == [sep |-> sep, y |-> y, m |-> m, d |-> d]

Row(pd, t, a, pn, p) ==
    [post_date |-> pd, title |-> t, author |-> a, product_name |-> pn, price |-> p]

Listings == {
    Row(D("/", 2024, 1, 1),  <<"A", "b">>, <<"a", "B">>, <<"b">>,      1),
    Row(D("/", 2024, 6, 1),  <<"b">>,      <<"b">>,      <<"a">>,      2),
    Row(D("-", 2024, 3, 1),  <<"b", ".">>, <<"a">>,      <<"b">>,      100),
    Row(D("/", 2024, 2, 30), <<"b">>,      <<"B">>,      <<"b", "b">>, 0),
    Row(D("/", 2024, 3, 1),  <<"a">>,      <<"A">>,      <<"A">>,      150000) }

Keywords == { <<>>, <<"a">>, <<".">>, <<"(">> }
DateChoices == { 20240101, 20240301, 20240601 }
PriceMarks == { 0, 100, 100000 }

Tables == UNION { [1..n -> Listings] : n \in 0..MaxRows }

-----------------------------------------------------------------------------
(* load_data *)

IsLeap(y) == (y % 4 = 0 /\ y % 100 # 0) \/ y % 400 = 0

DaysIn(y, m) ==
    IF m = 2 THEN (IF IsLeap(y) THEN 29 ELSE 28)
    ELSE IF m \in {4, 6, 9, 11} THEN 30 ELSE 31

\* pd.to_datetime(s, format='%Y/%m/%d', errors='coerce').dt.date
ToDate(s) ==
    IF s.sep # "/" THEN NaT
    ELSE IF ~(s.m \in 1..12) THEN NaT
    ELSE IF ~(s.d \in 1..DaysIn(s.y, s.m)) THEN NaT
    ELSE s.y * 10000 + s.m * 100 + s.d

\* ... ORDER BY id DESC
OrderByIdDesc(t) == [i \in 1..Len(t) |-> t[Len(t) + 1 - i]]

LoadedRow(r) ==
    [post_date |-> r.post_date, title |-> r.title, author |-> r.author,
     product_name |-> r.product_name, price |-> r.price,
     post_date_dt |-> ToDate(r.post_date)]

ReadSqlQuery(t) == [i \in 1..Len(t) |-> LoadedRow(OrderByIdDesc(t)[i])]

-----------------------------------------------------------------------------
(* Series helpers *)

RECURSIVE SumPrice(_)
SumPrice(rows) ==
    IF rows = <<>> THEN 0 ELSE rows[1].price + SumPrice(Tail(rows))

MaxOf(S) == CHOOSE x \in S : \A y \in S : y <= x
MinOf(S) == CHOOSE x \in S : \A y \in S : x <= y

Prices(rows) == { rows[i].price : i \in 1..Len(rows) }
NotNullDates(rows) ==
    { rows[i].post_date_dt : i \in { j \in 1..Len(rows) : rows[j].post_date_dt # NaT } }
HasNullDate(rows) == \E i \in 1..Len(rows) : rows[i].post_date_dt = NaT

\* int(x) of a quotient: truncation toward zero
IntDiv(a, b) == IF a >= 0 THEN a \div b ELSE -((-a) \div b)

-----------------------------------------------------------------------------
(* Series.str.contains(pat, case=False): pat is a regular expression.  Of  *)
(* the regular-expression syntax the sample alphabet holds the letters,    *)
(* "." (any character) and "(" (an unterminated group: re.error).          *)

Lower(c) == CASE c = "A" -> "a" [] c = "B" -> "b" [] OTHER -> c

CompilesOk(pat) == \A i \in 1..Len(pat) : pat[i] # "("

CharMatch(p, c) == p = "." \/ Lower(p) = Lower(c)

MatchAt(pat, s, k) ==
    /\ k + Len(pat) - 1 <= Len(s)
    /\ \A i \in 1..Len(pat) : CharMatch(pat[i], s[k + i - 1])

StrContains(s, pat) == \E k \in 1..Len(s) : MatchAt(pat, s, k)

-----------------------------------------------------------------------------
(* The widgets' values *)

\* st.sidebar.date_input(value=(min, max), min_value=min, max_value=max):
\* a tuple of zero, one or two dates of the picker's range
DateInputValues(lo, hi) ==
    LET days == { d \in DateChoices \cup {lo, hi} : lo <= d /\ d <= hi }
    IN  {<<>>} \cup { <<s>> : s \in days }
               \cup { r \in days \X days : r[1] <= r[2] }

DefaultDateRange(rows) == <<MinOf(NotNullDates(rows)), MaxOf(NotNullDates(rows))>>

SliderMax(rows) ==
    LET db_max_price == MaxOf(Prices(rows))
    IN  IF db_max_price < PriceCap THEN db_max_price ELSE PriceCap

\* st.sidebar.slider(min_value=0, max_value=slider_max, value=(0, slider_max), step=100)
SliderValues(slider_max) ==
    { v \in PriceMarks \cup {0, slider_max} :
        /\ 0 <= v /\ v <= slider_max
        /\ (v % SliderStep = 0 \/ v = slider_max) }

SliderRanges(slider_max) ==
    { r \in SliderValues(slider_max) \X SliderValues(slider_max) : r[1] <= r[2] }

DefaultPriceRange(rows) == <<0, SliderMax(rows)>>

-----------------------------------------------------------------------------
(* The filters; frame[mask] keeps the rows whose mask is True, in the frame's order *)

KeywordMask(r, kw) == StrContains(r.product_name, kw) \/ StrContains(r.title, kw)

SellerMask(r, kw) == StrContains(r.author, kw)

\* the range's end taken as exclusive
DateMaskOpenEnd(r, dr) ==
    /\ r.post_date_dt # NaT
    /\ r.post_date_dt >= dr[1]
    /\ r.post_date_dt < dr[2]

\* comparing an object column with a date: a null entry compares False
DateMask(r, dr) ==
    /\ r.post_date_dt # NaT
    /\ r.post_date_dt >= dr[1]
    /\ r.post_date_dt <= dr[2]

\* the range's upper bound taken as exclusive
PriceMaskOpenEnd(r, pr) == r.price >= pr[1] /\ r.price < pr[2]

PriceMask(r, pr) == r.price >= pr[1] /\ r.price <= pr[2]

ByKeyword(rows, kw) ==
    IF kw # <<>> THEN LET M(r) == KeywordMask(r, kw) IN SelectSeq(rows, M) ELSE rows

BySeller(rows, kw) ==
    IF kw # <<>> THEN LET M(r) == SellerMask(r, kw) IN SelectSeq(rows, M) ELSE rows

ByDate(rows, dr) ==
    IF Len(dr) = 2 THEN LET M(r) == DateMask(r, dr) IN SelectSeq(rows, M) ELSE rows

ByPrice(rows, pr) == LET M(r) == PriceMask(r, pr) IN SelectSeq(rows, M)

\* round(x) of a quotient of naturals: to the nearest integer, a tie to the even one
RoundDiv(a, b) ==
    LET q == a \div b
        r == a % b
    IN  IF 2 * r < b THEN q
        ELSE IF 2 * r > b THEN q + 1
        ELSE IF q % 2 = 0 THEN q ELSE q + 1

\* the mean rounded instead of truncated
AvgPriceRounded(rows) ==
    IF rows # <<>> THEN RoundDiv(SumPrice(rows), Len(rows)) ELSE 0

AvgPrice(rows) ==
    IF rows # <<>> THEN IntDiv(SumPrice(rows), Len(rows)) ELSE 0

-----------------------------------------------------------------------------
PcValues ==
    {"title", "load", "sidebar", "date", "slider", "keyword", "seller",
     "datefilter", "pricefilter", "metrics", "table", "except", "footer", "done"}

TypeOK ==
    /\ pc \in PcValues
    /\ db \in Tables
    /\ minSkipsNull \in BOOLEAN
    /\ conn \in {"none", "open", "closed"}
    /\ queries \in 0..1
    /\ Len(df) <= MaxRows
    /\ keyword \in Keywords
    /\ author_keyword \in Keywords
    /\ Len(date_range) \in 0..2
    /\ Len(price_range) = 2
    /\ Len(filtered_df) <= Len(df)
    /\ Len(kpi) \in {0, 3}
    /\ err \in {NoErr, "DatabaseError", "TypeError", "re.error"}
    /\ err_line \in {0, 17, 45, 78, 85}
    /\ (err = NoErr) = (err_line = 0)
Init ==
    /\ pc = "title"
    /\ db \in Tables
    /\ minSkipsNull \in BOOLEAN
    /\ conn = "none"
    /\ queries = 0
    /\ df = <<>>
    /\ keyword = <<>>
    /\ author_keyword = <<>>
    /\ date_range = <<>>
    /\ price_range = <<0, 0>>
    /\ filtered_df = <<>>
    /\ kpi = <<>>
    /\ ui = <<>>
    /\ err = NoErr
    /\ err_line = 0

\* st.title(...); st.markdown("---")
Title ==
    /\ pc = "title"
    /\ ui' = ui \o <<"title", "markdown">>
    /\ pc' = "load"
    /\ UNCHANGED <<db, minSkipsNull, conn, queries, df, keyword, author_keyword,
                   date_range, price_range, filtered_df, kpi, err, err_line>>

\* df = load_data(), the query succeeds
LoadDataOk ==
    /\ pc = "load"
    /\ queries' = queries + 1
    /\ conn' = "closed"
    /\ df' = ReadSqlQuery(db)
    /\ pc' = "sidebar"
    /\ UNCHANGED <<db, minSkipsNull, keyword, author_keyword, date_range,
                   price_range, filtered_df, kpi, ui, err, err_line>>

\* df = load_data(), the query raises: conn.close() is not reached
LoadDataRaise ==
    /\ pc = "load"
    /\ queries' = queries + 1
    /\ conn' = "open"
    /\ err' = "DatabaseError"
    /\ err_line' = 17
    /\ pc' = "except"
    /\ UNCHANGED <<db, minSkipsNull, df, keyword, author_keyword, date_range,
                   price_range, filtered_df, kpi, ui>>

\* the sidebar header and the two text inputs
SidebarInputs ==
    /\ pc = "sidebar"
    /\ ui' = ui \o <<"sidebar.header", "sidebar.text_input", "sidebar.text_input">>
    /\ keyword' \in Keywords
    /\ author_keyword' \in Keywords
    /\ pc' = "date"
    /\ UNCHANGED <<db, minSkipsNull, conn, queries, df, date_range, price_range,
                   filtered_df, kpi, err, err_line>>

HasDates == df # <<>> /\ NotNullDates(df) # {}

\* the date picker, bounded by the earliest and latest date of the data
DateInput ==
    /\ pc = "date"
    /\ HasDates
    /\ ~HasNullDate(df) \/ minSkipsNull
    /\ LET min_date == MinOf(NotNullDates(df))
           max_date == MaxOf(NotNullDates(df))
       IN  date_range' \in DateInputValues(min_date, max_date)
    /\ ui' = Append(ui, "sidebar.date_input")
    /\ pc' = "slider"
    /\ UNCHANGED <<db, minSkipsNull, conn, queries, df, keyword, author_keyword,
                   price_range, filtered_df, kpi, err, err_line>>

\* df['post_date_dt'].min() of a column that mixes dates and NaT, on a build
\* whose object-column reduction compares the null entries' fill value with the dates
DateInputRaise ==
    /\ pc = "date"
    /\ HasDates
    /\ HasNullDate(df) /\ ~minSkipsNull
    /\ err' = "TypeError"
    /\ err_line' = 45
    /\ pc' = "except"
    /\ UNCHANGED <<db, minSkipsNull, conn, queries, df, keyword, author_keyword,
                   date_range, price_range, filtered_df, kpi, ui>>

\* else: date_range = []
DateNone ==
    /\ pc = "date"
    /\ ~HasDates
    /\ date_range' = <<>>
    /\ pc' = "slider"
    /\ UNCHANGED <<db, minSkipsNull, conn, queries, df, keyword, author_keyword,
                   price_range, filtered_df, kpi, ui, err, err_line>>

PriceSlider ==
    /\ pc = "slider"
    /\ df # <<>>
    /\ price_range' \in SliderRanges(SliderMax(df))
    /\ ui' = Append(ui, "sidebar.slider")
    /\ pc' = "keyword"
    /\ UNCHANGED <<db, minSkipsNull, conn, queries, df, keyword, author_keyword,
                   date_range, filtered_df, kpi, err, err_line>>

\* else: price_range = (0, 0)
PriceNone ==
    /\ pc = "slider"
    /\ df = <<>>
    /\ price_range' = <<0, 0>>
    /\ pc' = "keyword"
    /\ UNCHANGED <<db, minSkipsNull, conn, queries, df, keyword, author_keyword,
                   date_range, filtered_df, kpi, ui, err, err_line>>

\* filtered_df = df.copy(); A. the keyword filter
FilterKeyword ==
    /\ pc = "keyword"
    /\ keyword # <<>> => CompilesOk(keyword)
    /\ filtered_df' = ByKeyword(df, keyword)
    /\ pc' = "seller"
    /\ UNCHANGED <<db, minSkipsNull, conn, queries, df, keyword, author_keyword,
                   date_range, price_range, kpi, ui, err, err_line>>

FilterKeywordRaise ==
    /\ pc = "keyword"
    /\ keyword # <<>> /\ ~CompilesOk(keyword)
    /\ filtered_df' = df
    /\ err' = "re.error"
    /\ err_line' = 78
    /\ pc' = "except"
    /\ UNCHANGED <<db, minSkipsNull, conn, queries, df, keyword, author_keyword,
                   date_range, price_range, kpi, ui>>

\* B. the seller filter
FilterSeller ==
    /\ pc = "seller"
    /\ author_keyword # <<>> => CompilesOk(author_keyword)
    /\ filtered_df' = BySeller(filtered_df, author_keyword)
    /\ pc' = "datefilter"
    /\ UNCHANGED <<db, minSkipsNull, conn, queries, df, keyword, author_keyword,
                   date_range, price_range, kpi, ui, err, err_line>>

FilterSellerRaise ==
    /\ pc = "seller"
    /\ author_keyword # <<>> /\ ~CompilesOk(author_keyword)
    /\ err' = "re.error"
    /\ err_line' = 85
    /\ pc' = "except"
    /\ UNCHANGED <<db, minSkipsNull, conn, queries, df, keyword, author_keyword,
                   date_range, price_range, filtered_df, kpi, ui>>

\* C. the date filter
FilterDate ==
    /\ pc = "datefilter"
    /\ filtered_df' = ByDate(filtered_df, date_range)
    /\ pc' = "pricefilter"
    /\ UNCHANGED <<db, minSkipsNull, conn, queries, df, keyword, author_keyword,
                   date_range, price_range, kpi, ui, err, err_line>>

\* D. the price filter
FilterPrice ==
    /\ pc = "pricefilter"
    /\ filtered_df' = IF df # <<>> THEN ByPrice(filtered_df, price_range) ELSE filtered_df
    /\ pc' = "metrics"
    /\ UNCHANGED <<db, minSkipsNull, conn, queries, df, keyword, author_keyword,
                   date_range, price_range, kpi, ui, err, err_line>>

\* the three KPI metrics
Metrics ==
    /\ pc = "metrics"
    /\ kpi' = <<Len(df), Len(filtered_df), AvgPrice(filtered_df)>>
    /\ ui' = ui \o <<"metric", "metric", "metric">>
    /\ pc' = "table"
    /\ UNCHANGED <<db, minSkipsNull, conn, queries, df, keyword, author_keyword,
                   date_range, price_range, filtered_df, err, err_line>>

\* the subheader and the table, or the "no data" warning
Table ==
    /\ pc = "table"
    /\ ui' = ui \o <<"subheader", IF filtered_df # <<>> THEN "dataframe" ELSE "warning">>
    /\ pc' = "footer"
    /\ UNCHANGED <<db, minSkipsNull, conn, queries, df, keyword, author_keyword,
                   date_range, price_range, filtered_df, kpi, err, err_line>>

\* except Exception as e: st.error(...)
Except ==
    /\ pc = "except"
    /\ ui' = Append(ui, "error")
    /\ pc' = "footer"
    /\ UNCHANGED <<db, minSkipsNull, conn, queries, df, keyword, author_keyword,
                   date_range, price_range, filtered_df, kpi, err, err_line>>

\* st.markdown("---"); st.caption(...)
Footer ==
    /\ pc = "footer"
    /\ ui' = ui \o <<"markdown", "caption">>
    /\ pc' = "done"
    /\ UNCHANGED <<db, minSkipsNull, conn, queries, df, keyword, author_keyword,
                   date_range, price_range, filtered_df, kpi, err, err_line>>

Next ==
    \/ Title
    \/ LoadDataOk
    \/ LoadDataRaise
    \/ SidebarInputs
    \/ DateInput
    \/ DateInputRaise
    \/ DateNone
    \/ PriceSlider
    \/ PriceNone
    \/ FilterKeyword
    \/ FilterKeywordRaise
    \/ FilterSeller
    \/ FilterSellerRaise
    \/ FilterDate
    \/ FilterPrice
    \/ Metrics
    \/ Table
    \/ Except
    \/ Footer

Spec == Init /\ [][Next]_vars

-----------------------------------------------------------------------------
(* Properties *)

\* k occurs in s as a literal substring, letters compared without case
LiteralIn(k, s) ==
    \E off \in 1..Len(s) :
        /\ off + Len(k) - 1 <= Len(s)
        /\ \A i \in 1..Len(k) : Lower(k[i]) = Lower(s[off + i - 1])

InDateRange(r) ==
    /\ r.post_date_dt # NaT
    /\ date_range[1] <= r.post_date_dt
    /\ r.post_date_dt <= date_range[2]

InPriceRange(r) == price_range[1] <= r.price /\ r.price <= price_range[2]

Finished == pc = "done" /\ err = NoErr

\* the widgets' values as the page provides them, no choice made
NoCriteria ==
    /\ keyword = <<>>
    /\ author_keyword = <<>>
    /\ date_range = (IF HasDates THEN DefaultDateRange(df) ELSE <<>>)
    /\ price_range = (IF df # <<>> THEN DefaultPriceRange(df) ELSE <<0, 0>>)

\* C1: with no criteria supplied (empty keyword and seller, date and price
\* range as the page provides them) the filtered rows are the loaded rows and
\* filtered_count = total_count = len(L).
C1_NoCriteriaKeepsAll ==
    (Finished /\ NoCriteria) =>
        /\ filtered_df = df
        /\ kpi[1] = Len(df)
        /\ kpi[2] = Len(df)

\* C2 as stated: the displayed average is round(mean) of the filtered prices,
\* and 0 for an empty result.
C2_AverageIsRoundedMean ==
    Finished =>
        kpi[3] = (IF filtered_df = <<>> THEN 0
                  ELSE RoundDiv(SumPrice(filtered_df), Len(filtered_df)))

\* C2 as amended: the displayed average is the mean truncated to an integer
\* (the largest integer not above the mean, prices being >= 0 after the price
\* filter), and 0 for an empty result.
C2_AverageIsTruncatedMean ==
    kpi # <<>> =>
        IF filtered_df = <<>> THEN kpi[3] = 0
        ELSE /\ kpi[3] * Len(filtered_df) <= SumPrice(filtered_df)
             /\ SumPrice(filtered_df) < (kpi[3] + 1) * Len(filtered_df)

C2_Witness ==
    /\ Finished
    /\ filtered_df # <<>>
    /\ 2 * (SumPrice(filtered_df) % Len(filtered_df)) >= Len(filtered_df)
    /\ kpi[3] * Len(filtered_df) < SumPrice(filtered_df)

Count(seq, x) == Cardinality({ i \in 1..Len(seq) : seq[i] = x })

PartialUI ==
    { "sidebar.header", "sidebar.text_input", "sidebar.date_input", "sidebar.slider",
      "metric", "subheader", "dataframe", "warning" }

\* C3: on a failure of the load (line 17) or of a filter (lines 78, 85) no filter widget, metric or table
\* emitted before the failure remains on the page, and exactly one error
\* message is shown.
C3_NoPartialUIOnFailure ==
    (pc = "done" /\ err_line \in {17, 78, 85}) =>
        /\ \A i \in 1..Len(ui) : ui[i] \notin PartialUI
        /\ Count(ui, "error") = 1

AllCriteria(r) ==
    /\ keyword # <<>> => (LiteralIn(keyword, r.title) \/ LiteralIn(keyword, r.product_name))
    /\ author_keyword # <<>> => LiteralIn(author_keyword, r.author)
    /\ Len(date_range) = 2 => InDateRange(r)
    /\ InPriceRange(r)

\* C4: the filtered rows are the loaded rows, in load order, that satisfy all
\* active criteria at once (keyword, seller as a case-insensitive substring of
\* author, date range, price range), and total_count is the number of loaded rows.
C4_FiltersAreConjunction ==
    Finished =>
        /\ filtered_df = SelectSeq(df, AllCriteria)
        /\ kpi[1] = Len(df)
        /\ kpi[2] = Len(filtered_df)

KeywordLiteral(r) == LiteralIn(keyword, r.title) \/ LiteralIn(keyword, r.product_name)

\* C5: for a non-empty keyword a row passes the keyword filter iff the keyword
\* occurs, as a literal substring without regard to case, in its title or in
\* its product_name, and applying the keyword filter never raises.
C5_KeywordIsLiteralOr ==
    /\ (pc = "seller" /\ keyword # <<>>) => filtered_df = SelectSeq(df, KeywordLiteral)
    /\ err_line # 78

BeforeDate == BySeller(ByKeyword(df, keyword), author_keyword)

C7_CapIsOnlyADefault ==
    (pc = "slider" /\ df # <<>>) =>
        \A i \in 1..Len(df) :
            df[i].price > PriceCap =>
                /\ ~PriceMask(df[i], DefaultPriceRange(df))
                /\ \E pr \in SliderRanges(SliderMax(df)) : PriceMask(df[i], pr)

BeforePrice == ByDate(BeforeDate, date_range)

\* C8: a row passes the price filter iff lo <= price <= hi, both bounds inclusive.
C8_PriceFilterInclusive ==
    (pc = "metrics" /\ df # <<>>) => filtered_df = SelectSeq(BeforePrice, InPriceRange)

C8_Witness ==
    /\ pc = "metrics"
    /\ price_range[1] < price_range[2]
    /\ \E i \in 1..Len(filtered_df) : filtered_df[i].price = price_range[1]
    /\ \E i \in 1..Len(filtered_df) : filtered_df[i].price = price_range[2]
    /\ Len(filtered_df) < Len(BeforePrice)

Malformed(s) == ~(s.sep = "/" /\ s.m \in 1..12 /\ s.d \in 1..DaysIn(s.y, s.m))

\* C9: a malformed post_date never makes the page fail: the load completes with
\* that row's normalized date null and every row kept, and the row is counted
\* in total_count.
C9_MalformedDateNeverFails ==
    /\ pc = "sidebar" =>
          /\ Len(df) = Len(db)
          /\ \A i \in 1..Len(df) : (df[i].post_date_dt = NaT) = Malformed(df[i].post_date)
    /\ err_line # 45
    /\ kpi # <<>> => kpi[1] = Len(db)

\* C10: the connection load_data opened is released once load_data is over,
\* whatever the outcome of the query, and the query runs at most once.
C10_ConnectionReleased ==
    /\ pc \notin {"title", "load"} => conn = "closed"
    /\ queries <= 1
====
